---- MODULE Spec2Model ----
(***************************************************************************)
(* Model of the real-time audio WebSocket server of neuroTalk              *)
(* (src/utils/websocket_server.py): AudioBuffer, RealTimeVoiceProcessor    *)
(* and WebSocketAudioServer, with the VAD and Whisper capabilities as      *)
(* nondeterministic inputs.                                                *)
(*                                                                         *)
(* Units.  Times are wall-clock milliseconds (time.time() is in seconds;   *)
(* 1.0 s is 1000).  A float32 array is modelled by the interval of stream  *)
(* positions it holds, [start, len]: the buffer only ever holds a          *)
(* contiguous run of the samples fed to it.  A duration len/sample_rate is *)
(* kept as the exact fraction [num, den].                                  *)
(***************************************************************************)
EXTENDS Integers, Sequences, FiniteSets, TLC

VARIABLES
    clients,     \* WebSocketAudioServer.clients: connections whose handler runs
    processor,   \* WebSocketAudioServer.processor: <<>> (None) or <<p>>
    now,         \* the wall clock read by time.time()
    inflight,    \* <<>> or <<job>>: the handler blocked inside the transcription call
    activated,   \* history: connections that sent a successful init since connecting
    stream,      \* history of the current processor: samples (fed) and chunks
                 \* (seq) appended, fed when its buffer was last emptied (base),
                 \* the position after the last sample ever put on the queue
                 \* (handed), the text of its last successful transcription,
                 \* the audio_chunk messages answered without an error since
                 \* it was constructed or last reset (answered)
    last,        \* history: the last inbound message handled and what was sent back
    sent,        \* history: per connection, total_chunks of the last audio_processed
                 \* sent to it since its last reset or successful init (0: none)
    bench,       \* a VoiceActivityDetector and a RealTimeVoiceProcessor used on
                 \* their own, without a server, and the last call made on them
    recorder,    \* an AudioRecorder, the number of streams it has opened and
                 \* the last call made on it
    gone         \* per connection, "open", or the exception a send on it
                 \* raises because the peer has gone while its handler runs

vars == <<clients, processor, now, inflight, activated, stream, last, sent, bench,
          recorder, gone>>

(***************************************************************************)
(* Bounds of the model.                                                    *)
(***************************************************************************)
MaxChunks == 2        \* chunks appended to one processor object
MaxStarts == 2        \* streams one AudioRecorder opens
MaxFrames == 2        \* frames read in one recording
MaxElapsed == 1000    \* the clock runs from T0 to T0 + MaxElapsed

Conns == {"A", "B"}
T0 == 5000
TickSteps == {1000}
InCallDelays == {0, 1000}

\* The settings objects an init message carries (a missing key takes the default).
SettingsInputs ==
    {[vad_aggressiveness |-> 3, sample_rate |-> 8000, whisper_model |-> "tiny"],
     [vad_aggressiveness |-> 4, sample_rate |-> 8000, whisper_model |-> "tiny"],
     [sample_rate |-> 44100],
     [vad_aggressiveness |-> 2]}

\* The audio_data values an audio_chunk message carries: the empty string,
\* and well-formed base64 of the given number of bytes (16000 bytes are 8000
\* samples: 1.0 s at 8 kHz, 0.5 s at 16 kHz).
AudioInputs ==
    {[kind |-> "empty", nbytes |-> 0]}
    \cup [kind : {"b64"}, nbytes : {0, 1, 16000, 16002}]

\* Chunks that fill the buffer to its 30 s cap: no sample, 1.0 s at 8 kHz,
\* and one sample more than 30 s at 8 kHz (one more than 15 s at 16 kHz).
LongAudioInputs == [kind : {"b64"}, nbytes : {0, 16000, 480002}]

\* The payloads two clients send: none, and 8001 samples (just over 1.0 s at
\* 8 kHz, 0.5 s at 16 kHz).
TwoAudioInputs ==
    {[kind |-> "empty", nbytes |-> 0], [kind |-> "b64", nbytes |-> 16002]}

\* The values of data.get("type") that are none of init, audio_chunk,
\* get_stats, reset, as the f-string of line 376 shows them: a string, and
\* None for a message without a type key.
UnknownTypeInputs == {"bogus", "None"}

\* The exceptions websocket.send raises when the peer has gone.
SendFailures == {"ConnectionClosed", "OSError"}

\* The arguments VoiceActivityDetector is constructed with.
AggressivenessInputs == {-1, 0, 3, 4}
SampleRateInputs == {0, 8000, 16000, 32000, 44100, 48000}

\* What the VAD primitive answers for the frames of a chunk.
VadInputs == {"none", "all"}

\* What the VAD primitive does with the frames of a chunk when the detector
\* is used on its own: no frame is speech, every frame is, it raises on
\* every frame, it raises on the first frame and finds speech in the others.
FrameAnswers == {"none", "all", "raises", "raises_first"}

\* What the primitive answers for the frames of the audio given to
\* get_speech_segments: also speech on every other frame, speech on two
\* frames out of three, and speech from the third frame on.
SegmentAnswers == {"none", "all", "raises_first", "even", "runs", "late"}

\* min_speech_duration in ms
MinDurationInputs == {0, 30, 50, 60, 500}

\* max(|sample|) of a chunk in thousandths (100 is 0.1, 1000 is 1.0).
PeakInputs == {0, 50, 100, 1000, 2000}

\* The format_type an AudioRecorder is constructed with: the two formats the
\* conversions know, and another one.
FormatInputs == {"paInt16", "paFloat32", "paInt24"}

\* What the Whisper capability does: load_ok is whether constructing the
\* model succeeds if it is attempted, kind and text what transcribing gives.
Texts == {"hello"}
SttInputs ==
    [kind : {"text"}, text : Texts, load_ok : BOOLEAN]
    \cup [kind : {"error"}, text : {""}, load_ok : BOOLEAN]

(***************************************************************************)
(* AudioBuffer                                                             *)
(***************************************************************************)
silence_threshold == 1000
max_duration == 30

EmptyArray == [start |-> 0, len |-> 0]

\* np.concatenate([a, b]) of two runs of the same stream
concatenate(a, b) ==
    IF a.len = 0 THEN b
    ELSE IF b.len = 0 THEN a
    ELSE [start |-> a.start, len |-> a.len + b.len]

\* a[:k] instead of a[-k:]
first_samples(a, k) ==
    IF k >= a.len THEN a ELSE [start |-> a.start, len |-> k]

\* a[-k:] for 0 < k
last_samples(a, k) ==
    IF k >= a.len THEN a ELSE [start |-> a.start + a.len - k, len |-> k]

AudioBuffer(sample_rate) ==
    [sample_rate |-> sample_rate,
     max_samples |-> sample_rate * max_duration,
     buffer |-> EmptyArray,
     last_speech_time |-> 0]

\* add_chunk refusing a chunk that would take the buffer over max_samples
add_chunk_dropping_overflow(ab, audio_chunk) ==
    IF audio_chunk.len = 0 THEN ab
    ELSE LET joined == concatenate(ab.buffer, audio_chunk) IN
         IF joined.len > ab.max_samples
         THEN ab
         ELSE [ab EXCEPT !.buffer = joined]

add_chunk(ab, audio_chunk) ==
    IF audio_chunk.len = 0 THEN ab
    ELSE LET joined == concatenate(ab.buffer, audio_chunk) IN
         IF joined.len > ab.max_samples
         THEN [ab EXCEPT !.buffer = last_samples(joined, ab.max_samples)]
         ELSE [ab EXCEPT !.buffer = joined]

get_buffer(ab) == ab.buffer

clear_buffer(ab) == [ab EXCEPT !.buffer = EmptyArray]

get_duration(ab) ==
    IF ab.buffer.len > 0 THEN [num |-> ab.buffer.len, den |-> ab.sample_rate]
    ELSE [num |-> 0, den |-> 1]

\* duration > 1.0 for a duration kept as a fraction
GreaterThanOne(d) == d.num > d.den

(***************************************************************************)
(* Records as JSON objects / dicts                                         *)
(***************************************************************************)
Has(r, f) == f \in DOMAIN r

\* d.get(f, default)
Get(r, f, default) == IF f \in DOMAIN r THEN r[f] ELSE default

\* d[f] = v
SetField(r, f, v) == [k \in DOMAIN r \cup {f} |-> IF k = f THEN v ELSE r[k]]

(***************************************************************************)
(* VoiceActivityDetector (src/utils/vad.py)                                *)
(***************************************************************************)
ValidSampleRates == {8000, 16000, 32000, 48000}
frame_duration_ms == 30

\* VoiceActivityDetector.__init__ checking the sample rate only
VoiceActivityDetector_any_aggressiveness(aggressiveness, sample_rate) ==
    IF sample_rate \notin ValidSampleRates THEN <<>>
    ELSE <<[aggressiveness |-> aggressiveness,
            sample_rate |-> sample_rate,
            frame_size |-> (sample_rate * frame_duration_ms) \div 1000]>>

\* VoiceActivityDetector.__init__: <<>> when it raises ValueError
VoiceActivityDetector(aggressiveness, sample_rate) ==
    IF sample_rate \notin ValidSampleRates THEN <<>>
    ELSE IF ~(0 <= aggressiveness /\ aggressiveness <= 3) THEN <<>>
    ELSE <<[aggressiveness |-> aggressiveness,
            sample_rate |-> sample_rate,
            frame_size |-> (sample_rate * frame_duration_ms) \div 1000]>>

\* self.vad.is_speech(audio_frame, sample_rate), line 61: what the primitive
\* does on frame i under the answer pattern of this chunk
vad_is_speech(answer, i) ==
    CASE answer = "all" -> "speech"
      [] answer = "none" -> "nonspeech"
      [] answer = "raises" -> "raises"
      [] answer = "raises_first" -> IF i = 0 THEN "raises" ELSE "speech"
      [] answer = "even" -> IF i % 2 = 0 THEN "speech" ELSE "nonspeech"
      [] answer = "runs" -> IF i % 3 = 2 THEN "nonspeech" ELSE "speech"
      [] answer = "late" -> IF i < 2 THEN "nonspeech" ELSE "speech"

\* is_speech taking an exception of the primitive for speech
is_speech_failing_open(answer, i) == vad_is_speech(answer, i) # "nonspeech"

\* is_speech on frame i: an exception of the primitive is caught and False
\* is returned (lines 60-64)
is_speech(answer, i) ==
    IF vad_is_speech(answer, i) = "raises" THEN FALSE
    ELSE vad_is_speech(answer, i) = "speech"

\* the gain step boosting every chunk below 0.1, an all-zero one included
normalise_boosting_silence(max_val) ==
    IF max_val < 100 THEN 500
    ELSE IF max_val > 1000 THEN 900
    ELSE max_val

\* the gain step of lines 82-90 on a chunk whose max(|sample|) is max_val:
\* the max(|sample|) of the array that goes on to the int16 conversion
normalise(max_val) ==
    IF max_val > 0
    THEN IF max_val < 100 THEN 500
         ELSE IF max_val > 1000 THEN 900
         ELSE max_val
    ELSE max_val

\* the primitive on the frames of a chunk whose max(|sample|) is max_val: a
\* chunk that is all zero after the gain step gives all-zero int16 frames,
\* zero-padding included, and an all-zero frame is not speech
heard(answer, max_val) == IF normalise(max_val) = 0 THEN "none" ELSE answer

\* range(0, n, chunk_size) counted without the final partial frame
FrameCount_whole_frames(n, chunk_size) == n \div chunk_size

\* range(0, n, chunk_size) has ceil(n / chunk_size) elements
FrameCount(n, chunk_size) == (n + chunk_size - 1) \div chunk_size

\* len(audio_int16[i:i + chunk_size]) for i = k * chunk_size, line 99
frame_samples(n, chunk_size, k) ==
    IF (k + 1) * chunk_size <= n THEN chunk_size ELSE n - k * chunk_size

\* the length of the frame after np.pad, lines 102-103
pad(len, chunk_size) == IF len < chunk_size THEN chunk_size ELSE len

\* the frames the loop of lines 98-106 hands to is_speech: where each
\* starts, how many samples of the chunk it holds, how long it is
frames(vad, n) ==
    [k \in 1..FrameCount(n, vad.frame_size) |->
        [first |-> (k - 1) * vad.frame_size,
         samples |-> frame_samples(n, vad.frame_size, k - 1),
         given |-> pad(frame_samples(n, vad.frame_size, k - 1), vad.frame_size)]]

\* process_audio_chunks: the list of (chunk_index, is_speech)
process_audio_chunks(vad, n, answer) ==
    IF n = 0 THEN <<>>
    ELSE [k \in 1..FrameCount(n, vad.frame_size) |-> <<k - 1, is_speech(answer, k - 1)>>]

(***************************************************************************)
(* SpeechToTextProcessor (src/utils/speech_to_text.py)                     *)
(***************************************************************************)
valid_models == {"tiny", "base", "small", "medium", "large"}

\* SpeechToTextProcessor.__init__: <<>> when it raises (an invalid model size,
\* or whisper.load_model failing)
SpeechToTextProcessor(model_size, load_ok) ==
    IF model_size \notin valid_models THEN <<>>
    ELSE IF ~load_ok THEN <<>>
    ELSE <<[model_size |-> model_size]>>

\* transcribe_audio: the dict it returns; every exception inside becomes
\* {"text": "", "error": ...}
transcribe_audio(outcome) ==
    IF outcome.kind = "text" THEN [text |-> outcome.text, language |-> "en"]
    ELSE [text |-> "", error |-> "transcription failed"]

\* the loop of lines 137-148 from the k-th result on: current_start is <<>>
\* for None, times are in ms
RECURSIVE segments_from(_, _, _, _, _)
segments_from(vad_results, k, current_start, segments, min_speech_duration) ==
    IF k > Len(vad_results)
    THEN segments
    ELSE LET time_sec == vad_results[k][1] * frame_duration_ms
             speech == vad_results[k][2]
         IN IF speech /\ current_start = <<>>
            THEN segments_from(vad_results, k + 1, <<time_sec>>, segments,
                               min_speech_duration)
            ELSE IF ~speech /\ current_start # <<>>
            THEN segments_from(vad_results, k + 1, <<>>,
                               IF time_sec - current_start[1] >= min_speech_duration
                               THEN Append(segments, <<current_start[1], time_sec>>)
                               ELSE segments,
                               min_speech_duration)
            ELSE segments_from(vad_results, k + 1, current_start, segments,
                               min_speech_duration)

\* current_start when the loop of lines 137-148 has run over all results
RECURSIVE start_after(_, _, _)
start_after(vad_results, k, current_start) ==
    IF k > Len(vad_results)
    THEN current_start
    ELSE IF vad_results[k][2] /\ current_start = <<>>
    THEN start_after(vad_results, k + 1, <<vad_results[k][1] * frame_duration_ms>>)
    ELSE IF ~vad_results[k][2] /\ current_start # <<>>
    THEN start_after(vad_results, k + 1, <<>>)
    ELSE start_after(vad_results, k + 1, current_start)

\* get_speech_segments keeping every run whatever its duration
get_speech_segments_unfiltered(vad, n, answer, min_speech_duration) ==
    LET vad_results == process_audio_chunks(vad, n, answer)
        segments == segments_from(vad_results, 1, <<>>, <<>>, 0)
        current_start == start_after(vad_results, 1, <<>>)
        end_time == Len(vad_results) * frame_duration_ms
    IN IF current_start # <<>>
       THEN Append(segments, <<current_start[1], end_time>>)
       ELSE segments

\* get_speech_segments on n samples, with times in ms
get_speech_segments(vad, n, answer, min_speech_duration) ==
    LET vad_results == process_audio_chunks(vad, n, answer)
        segments == segments_from(vad_results, 1, <<>>, <<>>, min_speech_duration)
        current_start == start_after(vad_results, 1, <<>>)
        end_time == Len(vad_results) * frame_duration_ms
    IN IF current_start # <<>> /\ end_time - current_start[1] >= min_speech_duration
       THEN Append(segments, <<current_start[1], end_time>>)
       ELSE segments

(***************************************************************************)
(* RealTimeVoiceProcessor                                                  *)
(***************************************************************************)
\* __init__: <<>> when VoiceActivityDetector raises, else <<p>>
RealTimeVoiceProcessor(vad_aggressiveness, sample_rate, whisper_model) ==
    LET vad == VoiceActivityDetector(vad_aggressiveness, sample_rate) IN
    IF vad = <<>> THEN <<>>
    ELSE <<[sample_rate |-> sample_rate,
            vad |-> vad[1],
            stt |-> <<>>,
            whisper_model |-> whisper_model,
            audio_buffer |-> AudioBuffer(sample_rate),
            processing_queue |-> <<>>,
            is_processing |-> FALSE,
            total_chunks_processed |-> 0,
            speech_chunks_detected |-> 0,
            last_transcription |-> "",
            last_transcription_time |-> 0]>>

\* base64.b64decode + np.frombuffer(dtype=int16): the number of samples, or
\* the exception raised
decode(audio_data) ==
    IF audio_data.kind = "badpad"
    THEN [raised |-> TRUE, error |-> "Incorrect padding", len |-> 0]
    ELSE IF audio_data.nbytes % 2 # 0
    THEN [raised |-> TRUE, error |-> "buffer size must be a multiple of element size",
          len |-> 0]
    ELSE [raised |-> FALSE, error |-> "", len |-> audio_data.nbytes \div 2]

\* should_transcribe with the duration test weakened to >= 1.0
should_transcribe_at_one_second(speech_detected, duration, time_since_speech) ==
    /\ speech_detected
    /\ duration.num >= duration.den
    /\ time_since_speech < silence_threshold

\* the test of lines 165-167
should_transcribe(speech_detected, duration, time_since_speech) ==
    /\ speech_detected
    /\ GreaterThanOne(duration)
    /\ time_since_speech < silence_threshold

\* the statistics update leaving last_speech_time as it was
count_chunk_keeping_speech_time(p, speech_detected, t_speech) ==
    [p EXCEPT !.total_chunks_processed = @ + 1,
              !.speech_chunks_detected = IF speech_detected THEN @ + 1 ELSE @]

\* the statistics update of lines 137-143
count_chunk(p, speech_detected, t_speech) ==
    [p EXCEPT !.total_chunks_processed = @ + 1,
              !.speech_chunks_detected = IF speech_detected THEN @ + 1 ELSE @,
              !.audio_buffer.last_speech_time = IF speech_detected THEN t_speech ELSE @]

\* the queueing putting the snapshot on the queue twice
queue_for_transcription_twice(p) ==
    [p EXCEPT !.processing_queue = Append(Append(@, get_buffer(p.audio_buffer)),
                                          get_buffer(p.audio_buffer))]

\* the queueing of lines 168-171
queue_for_transcription(p) ==
    [p EXCEPT !.processing_queue = Append(@, get_buffer(p.audio_buffer))]

\* process_audio_chunk counting the chunk before it looks at its length
process_audio_chunk_counting_first(p, audio_data, fed, answer, t_speech, t_now) ==
    LET dec == decode(audio_data) IN
    IF dec.raised THEN [p |-> p, result |-> [error |-> dec.error]]
    ELSE IF dec.len = 0
    THEN [p |-> [p EXCEPT !.total_chunks_processed = @ + 1],
          result |-> [error |-> "Empty audio chunk"]]
    ELSE
      LET audio_float == [start |-> fed, len |-> dec.len]
          p1 == [p EXCEPT !.audio_buffer = add_chunk(@, audio_float)]
          vad_results == process_audio_chunks(p.vad, audio_float.len, answer)
          speech_detected == \E k \in DOMAIN vad_results : vad_results[k][2]
          p2 == count_chunk(p1, speech_detected, t_speech)
          result == [status |-> "processed",
                     speech_detected |-> speech_detected,
                     chunk_duration |-> [num |-> audio_float.len, den |-> p.sample_rate],
                     buffer_duration |-> get_duration(p2.audio_buffer),
                     total_chunks |-> p2.total_chunks_processed,
                     speech_chunks |-> p2.speech_chunks_detected,
                     timestamp |-> t_now]
          time_since_speech == t_now - p2.audio_buffer.last_speech_time
      IN IF should_transcribe(speech_detected, get_duration(p2.audio_buffer),
                              time_since_speech)
         THEN [p |-> queue_for_transcription(p2),
               result |-> SetField(result, "transcription_queued", TRUE)]
         ELSE [p |-> p2, result |-> result]

\* process_audio_chunk.  fed is the stream position of the chunk's first
\* sample, answer the VAD primitive's answer, t_speech the clock read at line
\* 143 and t_now the clock read at lines 158 and 162.  max_amplitude and
\* rms_amplitude depend on the sample values only and are left out of result.
process_audio_chunk(p, audio_data, fed, answer, t_speech, t_now) ==
    LET dec == decode(audio_data) IN
    IF dec.raised THEN [p |-> p, result |-> [error |-> dec.error]]
    ELSE IF dec.len = 0 THEN [p |-> p, result |-> [error |-> "Empty audio chunk"]]
    ELSE
      LET audio_float == [start |-> fed, len |-> dec.len]
          p1 == [p EXCEPT !.audio_buffer = add_chunk(@, audio_float)]
          vad_results == process_audio_chunks(p.vad, audio_float.len, answer)
          speech_detected == \E k \in DOMAIN vad_results : vad_results[k][2]
          p2 == count_chunk(p1, speech_detected, t_speech)
          result == [status |-> "processed",
                     speech_detected |-> speech_detected,
                     chunk_duration |-> [num |-> audio_float.len, den |-> p.sample_rate],
                     buffer_duration |-> get_duration(p2.audio_buffer),
                     total_chunks |-> p2.total_chunks_processed,
                     speech_chunks |-> p2.speech_chunks_detected,
                     timestamp |-> t_now]
          time_since_speech == t_now - p2.audio_buffer.last_speech_time
      IN IF should_transcribe(speech_detected, get_duration(p2.audio_buffer),
                              time_since_speech)
         THEN [p |-> queue_for_transcription(p2),
               result |-> SetField(result, "transcription_queued", TRUE)]
         ELSE [p |-> p2, result |-> result]

\* _load_stt_model constructing the model on every call
load_stt_model_every_time(p, load_ok) ==
    [p EXCEPT !.stt = SpeechToTextProcessor(p.whisper_model, load_ok)]

\* _load_stt_model
load_stt_model(p, load_ok) ==
    IF p.stt = <<>>
    THEN [p EXCEPT !.stt = SpeechToTextProcessor(p.whisper_model, load_ok)]
    ELSE p

\* take_from_queue reading the head of the queue without removing it
take_from_queue_peeking(p) ==
    [p |-> p, audio_data |-> Head(p.processing_queue)]

\* process_transcription_queue up to the call of the capability (lines
\* 186-197): the item taken and the processor without it
take_from_queue(p) ==
    [p |-> [p EXCEPT !.processing_queue = Tail(@)], audio_data |-> Head(p.processing_queue)]

\* finish_transcription answering a failed transcription with a bare error
\* object and nothing else
finish_transcription_bare_error(p, audio_data, outcome, t_done) ==
    LET p1 == load_stt_model(p, outcome.load_ok) IN
    IF p1.stt = <<>> \/ outcome.kind # "text"
    THEN [p |-> p1, result |-> [error |-> "transcription failed"]]
    ELSE [p |-> [p1 EXCEPT !.last_transcription = outcome.text,
                           !.last_transcription_time = t_done],
          result |-> [status |-> "transcription_complete",
                      text |-> outcome.text,
                      language |-> "en",
                      duration |-> [num |-> audio_data.len, den |-> p1.sample_rate],
                      timestamp |-> t_done]]

\* finish_transcription storing the text of the result before looking for an
\* error in it
finish_transcription_storing_first(p, audio_data, outcome, t_done) ==
    LET p1 == load_stt_model(p, outcome.load_ok) IN
    IF p1.stt = <<>>
    THEN [p |-> p1,
          result |-> [status |-> "transcription_error", error |-> "model load failed"]]
    ELSE LET transcription_result == transcribe_audio(outcome)
             p2 == [p1 EXCEPT !.last_transcription = Get(transcription_result, "text", ""),
                              !.last_transcription_time = t_done]
         IN
         IF ~Has(transcription_result, "error")
         THEN [p |-> p2,
               result |-> [status |-> "transcription_complete",
                           text |-> Get(transcription_result, "text", ""),
                           language |-> Get(transcription_result, "language", "unknown"),
                           duration |-> [num |-> audio_data.len, den |-> p1.sample_rate],
                           timestamp |-> t_done]]
         ELSE [p |-> p2,
               result |-> [status |-> "transcription_error",
                           error |-> transcription_result.error]]

\* process_transcription_queue from the capability call on (lines 197-233),
\* for the item audio_data already taken; t_done is the clock read at line 210
finish_transcription(p, audio_data, outcome, t_done) ==
    LET p1 == load_stt_model(p, outcome.load_ok) IN
    IF p1.stt = <<>>
    THEN [p |-> p1,
          result |-> [status |-> "transcription_error", error |-> "model load failed"]]
    ELSE LET transcription_result == transcribe_audio(outcome) IN
         IF ~Has(transcription_result, "error")
         THEN [p |-> [p1 EXCEPT !.last_transcription = Get(transcription_result, "text", ""),
                                !.last_transcription_time = t_done],
               result |-> [status |-> "transcription_complete",
                           text |-> Get(transcription_result, "text", ""),
                           language |-> Get(transcription_result, "language", "unknown"),
                           duration |-> [num |-> audio_data.len, den |-> p1.sample_rate],
                           timestamp |-> t_done]]
         ELSE [p |-> p1,
               result |-> [status |-> "transcription_error",
                           error |-> transcription_result.error]]

\* speech_ratio with the division the wrong way round
speech_ratio_inverted(p) ==
    IF p.total_chunks_processed > 0
    THEN [num |-> p.total_chunks_processed, den |-> p.speech_chunks_detected]
    ELSE [num |-> 0, den |-> 1]

speech_ratio(p) ==
    IF p.total_chunks_processed > 0
    THEN [num |-> p.speech_chunks_detected, den |-> p.total_chunks_processed]
    ELSE [num |-> 0, den |-> 1]

get_stats(p) ==
    [total_chunks |-> p.total_chunks_processed,
     speech_chunks |-> p.speech_chunks_detected,
     speech_ratio |-> speech_ratio(p),
     buffer_duration |-> get_duration(p.audio_buffer),
     last_transcription |-> p.last_transcription,
     last_transcription_time |-> p.last_transcription_time,
     model_loaded |-> p.stt # <<>>]

\* reset leaving speech_chunks_detected as it is
reset_keeping_speech_chunks(p) ==
    [p EXCEPT !.audio_buffer = clear_buffer(@),
              !.total_chunks_processed = 0,
              !.last_transcription = "",
              !.last_transcription_time = 0,
              !.processing_queue = <<>>]

\* reset dropping the loaded model as well
reset_unloading_model(p) ==
    [p EXCEPT !.audio_buffer = clear_buffer(@),
              !.stt = <<>>,
              !.total_chunks_processed = 0,
              !.speech_chunks_detected = 0,
              !.last_transcription = "",
              !.last_transcription_time = 0,
              !.processing_queue = <<>>]

\* reset leaving the audio in the buffer
reset_keeping_audio(p) ==
    [p EXCEPT !.total_chunks_processed = 0,
              !.speech_chunks_detected = 0,
              !.last_transcription = "",
              !.last_transcription_time = 0,
              !.processing_queue = <<>>]

reset(p) ==
    [p EXCEPT !.audio_buffer = clear_buffer(@),
              !.total_chunks_processed = 0,
              !.speech_chunks_detected = 0,
              !.last_transcription = "",
              !.last_transcription_time = 0,
              !.processing_queue = <<>>]

(***************************************************************************)
(* WebSocketAudioServer                                                    *)
(***************************************************************************)
NoChunk == <<>>

\* what process_audio_chunk did for an audio_chunk message that reached it:
\* its return value, whether it put an item on the queue, and the
\* time_since_speech of line 163, and the length of the queue when it returned
ChunkInfo(result, enqueued, time_since_speech, queue_len) ==
    <<[result |-> result, enqueued |-> enqueued, time_since_speech |-> time_since_speech,
       queue_len |-> queue_len]>>

\* the history of a processor just constructed
NewStream ==
    [fed |-> 0, seq |-> 0, base |-> 0, handed |-> 0, transcribed |-> "", answered |-> 0]

\* nothing constructed, nothing called
\* no AudioRecorder has been constructed
NoRecorder ==
    [obj |-> <<>>, opened |-> 0, passed |-> "none", done |-> "none",
     trial |-> [op |-> "none"]]

NewBench ==
    [detector |-> <<>>, processor |-> <<>>, fed |-> 0, seq |-> 0,
     trial |-> [op |-> "none"]]

Init ==
    /\ clients = {}
    /\ processor = <<>>
    /\ now = T0
    /\ inflight = <<>>
    /\ activated = {}
    /\ stream = NewStream
    /\ last = [conn |-> "none", data |-> [type |-> "none"], replies |-> <<>>,
               attempts |-> <<>>, raised |-> "", chunk |-> NoChunk, done |-> TRUE]
    /\ sent = [c \in Conns |-> 0]
    /\ bench = NewBench
    /\ recorder = NoRecorder
    /\ gone = [c \in Conns |-> "open"]

\* what str(e) gives for the exception a failed send raised
SendError(how) == [error |-> how]

\* Reply without the finally clause of lines 315-316
Reply_keeping_client(c, data, response, extra, retried) ==
    LET ok == gone[c] = "open" IN
    /\ last' = [k \in {"conn", "data", "replies", "attempts", "raised", "done"}
                       \cup DOMAIN extra |->
                 CASE k = "conn" -> c
                   [] k = "data" -> data
                   [] k = "replies" -> IF ok THEN <<response>> ELSE <<>>
                   [] k = "attempts" -> IF ok \/ ~retried THEN <<response>>
                                        ELSE <<response, SendError(gone[c])>>
                   [] k = "raised" -> IF ok THEN "" ELSE gone[c]
                   [] k = "done" -> TRUE
                   [] OTHER -> extra[k]]
    /\ sent' = IF ~ok THEN [sent EXCEPT ![c] = 0] ELSE sent
    /\ clients' = clients
    /\ gone' = [gone EXCEPT ![c] = "open"]

\* websocket.send(json.dumps(response)) on connection c and what follows it
\* in handle_client.  The send succeeds while the peer is there.  When it
\* raises, the send of line 301 is inside the try of line 296, so that the
\* handler of line 307 sends the error text (retried), and that send raises
\* too; the sends of lines 304 and 309 are inside except clauses and their
\* exception leaves the loop at once.  Either way line 316 runs and the
\* handler ends.  attempts are the messages given to send, replies those
\* that were sent, extra the fields last has beside these.
Reply(c, data, response, extra, retried) ==
    LET ok == gone[c] = "open" IN
    /\ last' = [k \in {"conn", "data", "replies", "attempts", "raised", "done"}
                       \cup DOMAIN extra |->
                 CASE k = "conn" -> c
                   [] k = "data" -> data
                   [] k = "replies" -> IF ok THEN <<response>> ELSE <<>>
                   [] k = "attempts" -> IF ok \/ ~retried THEN <<response>>
                                        ELSE <<response, SendError(gone[c])>>
                   [] k = "raised" -> IF ok THEN "" ELSE gone[c]
                   [] k = "done" -> TRUE
                   [] OTHER -> extra[k]]
    /\ sent' = IF ~ok THEN [sent EXCEPT ![c] = 0]
               ELSE IF Has(response, "total_chunks") /\ response.type = "audio_processed"
               THEN [sent EXCEPT ![c] = response.total_chunks]
               ELSE IF Get(response, "type", "") \in {"reset_response", "init_response"}
               THEN [sent EXCEPT ![c] = 0]
               ELSE sent
    /\ clients' = IF ok THEN clients ELSE clients \ {c}
    /\ gone' = [gone EXCEPT ![c] = "open"]

\* handle_client, lines 298-301: the response of process_message is sent to
\* the sender
Respond(c, data, response, chunk) ==
    Reply(c, data, response, [chunk |-> chunk], TRUE)

\* handle_client, lines 303-311: the error object built for an exception is
\* sent to the sender
RespondError(c, data, response) ==
    Reply(c, data, response, [chunk |-> NoChunk], FALSE)

\* the response to an init that constructed a processor; replaced is the
\* value of self.processor that line 329 overwrote, of which the sample
\* rate, the chunk counter and the model are remembered
RespondInit(c, data, response, replaced) ==
    Reply(c, data, response,
          [chunk |-> NoChunk,
           replaced |-> IF replaced = <<>> THEN <<>>
                        ELSE <<[sample_rate |-> replaced[1].sample_rate,
                                total_chunks_processed |->
                                    replaced[1].total_chunks_processed,
                                stt |-> replaced[1].stt]>>],
          TRUE)

\* handle_client, lines 290-292: a client connects and its handler starts
Connect(c) ==
    /\ c \notin clients
    /\ inflight = <<>>
    /\ clients' = clients \cup {c}
    /\ activated' = activated \ {c}
    /\ UNCHANGED <<processor, now, inflight, stream, last, sent, gone>>

\* handle_client, lines 295 and 313-316: the peer closes and the handler ends
Disconnect(c) ==
    /\ c \in clients
    /\ inflight = <<>>
    /\ clients' = clients \ {c}
    /\ activated' = activated \ {c}
    /\ sent' = [sent EXCEPT ![c] = 0]
    /\ gone' = [gone EXCEPT ![c] = "open"]
    /\ UNCHANGED <<processor, now, inflight, stream, last>>

\* the wall clock advances
Tick(d) ==
    /\ now + d <= T0 + MaxElapsed
    /\ now' = now + d
    /\ UNCHANGED <<clients, processor, inflight, activated, stream, last, sent, gone>>

\* process_message for init keeping a processor that already exists
RecvInit_keeping_processor(c, settings) ==
    LET data == [type |-> "init", settings |-> settings]
        created == RealTimeVoiceProcessor(Get(settings, "vad_aggressiveness", 1),
                                          Get(settings, "sample_rate", 16000),
                                          Get(settings, "whisper_model", "base"))
    IN
    /\ c \in clients
    /\ inflight = <<>>
    /\ IF created = <<>>
       THEN /\ RespondError(c, data, [error |-> "invalid settings"])
            /\ UNCHANGED <<processor, stream, activated>>
       ELSE /\ processor' = IF processor = <<>> THEN created ELSE processor
            /\ stream' = IF processor = <<>> THEN NewStream ELSE stream
            /\ activated' = activated \cup {c}
            /\ RespondInit(c, data,
                           [type |-> "init_response", status |-> "initialized",
                            settings |-> settings],
                           processor)
    /\ UNCHANGED <<now, inflight>>

\* process_message for init dropping the processor it has when the
\* constructor raises
RecvInit_dropping_processor(c, settings) ==
    LET data == [type |-> "init", settings |-> settings]
        created == RealTimeVoiceProcessor(Get(settings, "vad_aggressiveness", 1),
                                          Get(settings, "sample_rate", 16000),
                                          Get(settings, "whisper_model", "base"))
    IN
    /\ c \in clients
    /\ inflight = <<>>
    /\ IF created = <<>>
       THEN /\ RespondError(c, data, [error |-> "invalid settings"])
            /\ processor' = <<>>
            /\ UNCHANGED <<stream, activated>>
       ELSE /\ processor' = created
            /\ stream' = NewStream
            /\ activated' = activated \cup {c}
            /\ RespondInit(c, data,
                           [type |-> "init_response", status |-> "initialized",
                            settings |-> settings],
                           processor)
    /\ UNCHANGED <<now, inflight>>

\* process_message, lines 322-335; an exception of the constructor leaves
\* self.processor as it was and is answered at lines 307-311
RecvInit(c, settings) ==
    LET data == [type |-> "init", settings |-> settings]
        created == RealTimeVoiceProcessor(Get(settings, "vad_aggressiveness", 1),
                                          Get(settings, "sample_rate", 16000),
                                          Get(settings, "whisper_model", "base"))
    IN
    /\ c \in clients
    /\ inflight = <<>>
    /\ IF created = <<>>
       THEN /\ RespondError(c, data, [error |-> "invalid settings"])
            /\ UNCHANGED <<processor, stream, activated>>
       ELSE /\ processor' = created
            /\ stream' = NewStream
            /\ activated' = activated \cup {c}
            /\ RespondInit(c, data,
                           [type |-> "init_response", status |-> "initialized",
                            settings |-> settings],
                           processor)
    /\ UNCHANGED <<now, inflight>>

\* the payload reaches the VAD and the clock reads of process_audio_chunk
ReachesVad(audio_data) ==
    /\ processor # <<>>
    /\ audio_data.kind # "empty"
    /\ ~decode(audio_data).raised
    /\ decode(audio_data).len > 0

\* process_message, lines 337-356, up to the point where the handler either
\* answers or enters the transcription call.  answer and delay are the VAD
\* primitive's answer and the time that passes between the clock reads of
\* lines 143 and 158; they are fixed when the call does not get there.
RecvAudioChunk(c, audio_data, answer, delay) ==
    LET data == [type |-> "audio_chunk", audio_data |-> audio_data] IN
    /\ c \in clients
    /\ inflight = <<>>
    /\ ~ReachesVad(audio_data) => answer = "none" /\ delay = 0
    /\ IF processor = <<>>
       THEN /\ Respond(c, data, [error |-> "Processor not initialized"], NoChunk)
            /\ UNCHANGED <<processor, now, inflight, stream>>
       ELSE IF audio_data.kind = "empty"
       THEN /\ Respond(c, data, [error |-> "No audio data provided"], NoChunk)
            /\ UNCHANGED <<processor, now, inflight, stream>>
       ELSE
         LET out == process_audio_chunk(processor[1], audio_data, stream.fed,
                                        answer, now, now + delay)
             appended == ReachesVad(audio_data)
             result == SetField(out.result, "type", "audio_processed")
             info == ChunkInfo(out.result,
                               Len(out.p.processing_queue)
                                 > Len(processor[1].processing_queue),
                               (now + delay) - out.p.audio_buffer.last_speech_time,
                               Len(out.p.processing_queue))
             taken == take_from_queue(out.p)
             queued == out.p.processing_queue # <<>>
         IN
         /\ now + delay <= T0 + MaxElapsed
         /\ appended => stream.seq < MaxChunks
         /\ now' = now + delay
         /\ stream' = [stream EXCEPT
                         !.fed = IF appended THEN @ + decode(audio_data).len ELSE @,
                         !.seq = IF appended THEN @ + 1 ELSE @,
                         !.handed = IF queued
                                    THEN taken.audio_data.start + taken.audio_data.len
                                    ELSE @,
                         !.answered = IF /\ ~(queued /\ taken.audio_data.len > 0)
                                         /\ ~Has(result, "error")
                                         /\ gone[c] = "open"
                                      THEN @ + 1 ELSE @]
         /\ IF out.p.processing_queue = <<>>
            THEN \* line 186: nothing queued, the statistics are the answer
                 /\ processor' = <<out.p>>
                 /\ Respond(c, data, result, info)
                 /\ UNCHANGED inflight
            ELSE IF taken.audio_data.len = 0
            THEN \* line 193: an empty item is dropped
                 /\ processor' = <<taken.p>>
                 /\ Respond(c, data, result, info)
                 /\ UNCHANGED inflight
            ELSE \* lines 196-206: the handler blocks in the capability
                 /\ processor' = <<taken.p>>
                 /\ inflight' = <<[conn |-> c, audio_data |-> taken.audio_data,
                                   result |-> result]>>
                 /\ last' = [conn |-> c, data |-> data, replies |-> <<>>,
                             attempts |-> <<>>, raised |-> "",
                             chunk |-> info, done |-> FALSE]
                 /\ UNCHANGED <<clients, sent, gone>>
    /\ UNCHANGED activated

\* the handler sending the statistics and then the transcription
TranscriptionReturns_both(outcome) ==
    /\ inflight # <<>>
    /\ LET job == inflight[1]
           out == finish_transcription(processor[1], job.audio_data, outcome, now)
           transcription_result == SetField(out.result, "type", "transcription")
       IN /\ processor' = <<out.p>>
          /\ stream' = [stream EXCEPT
                          !.transcribed = Get(out.result, "text", @),
                          !.answered = IF /\ ~Has(transcription_result, "error")
                                          /\ gone[job.conn] = "open"
                                       THEN @ + 1 ELSE @]
          /\ last' = [last EXCEPT !.replies = <<job.result, transcription_result>>,
                                  !.attempts = <<job.result, transcription_result>>,
                                  !.done = TRUE]
    /\ inflight' = <<>>
    /\ UNCHANGED <<clients, now, activated, sent, gone>>

\* process_transcription_queue, lines 197-233, and process_message, lines
\* 351-354: the capability returns and the handler answers
TranscriptionReturns(outcome) ==
    /\ inflight # <<>>
    /\ LET job == inflight[1]
           out == finish_transcription(processor[1], job.audio_data, outcome, now)
           transcription_result == SetField(out.result, "type", "transcription")
       IN /\ processor' = <<out.p>>
          /\ stream' = [stream EXCEPT
                          !.transcribed = Get(out.result, "text", @),
                          !.answered = IF /\ ~Has(transcription_result, "error")
                                          /\ gone[job.conn] = "open"
                                       THEN @ + 1 ELSE @]
          /\ Respond(job.conn, last.data, transcription_result, last.chunk)
    /\ inflight' = <<>>
    /\ UNCHANGED <<now, activated>>

\* get_stats handing out last_transcription once: the read clears it
RecvGetStats_consuming(c) ==
    /\ c \in clients
    /\ inflight = <<>>
    /\ Respond(c, [type |-> "get_stats"],
               IF processor = <<>> THEN [error |-> "Processor not initialized"]
               ELSE SetField(get_stats(processor[1]), "type", "stats"),
               NoChunk)
    /\ processor' = IF processor = <<>> THEN processor
                    ELSE <<[processor[1] EXCEPT !.last_transcription = ""]>>
    /\ UNCHANGED <<now, inflight, activated, stream>>

\* process_message, lines 358-364
RecvGetStats(c) ==
    /\ c \in clients
    /\ inflight = <<>>
    /\ Respond(c, [type |-> "get_stats"],
               IF processor = <<>> THEN [error |-> "Processor not initialized"]
               ELSE SetField(get_stats(processor[1]), "type", "stats"),
               NoChunk)
    /\ UNCHANGED <<processor, now, inflight, activated, stream>>

\* process_message, lines 366-373
RecvReset(c) ==
    /\ c \in clients
    /\ inflight = <<>>
    /\ processor' = IF processor # <<>> THEN <<reset(processor[1])>> ELSE processor
    /\ stream' = [stream EXCEPT !.base = stream.fed, !.answered = 0]
    /\ Respond(c, [type |-> "reset"],
               [type |-> "reset_response", status |-> "reset_complete"], NoChunk)
    /\ UNCHANGED <<now, inflight, activated>>

\* an unknown type answered without naming it
RecvUnknownType_generic(c, message_type) ==
    /\ c \in clients
    /\ inflight = <<>>
    /\ Respond(c, [type |-> message_type], [error |-> "Unknown message type"],
               NoChunk)
    /\ UNCHANGED <<processor, now, inflight, activated, stream>>

\* process_message, lines 375-376
RecvUnknownType(c, message_type) ==
    /\ c \in clients
    /\ inflight = <<>>
    /\ Respond(c, [type |-> message_type],
               [error |-> "Unknown message type: " \o message_type], NoChunk)
    /\ UNCHANGED <<processor, now, inflight, activated, stream>>

\* a handler that gives up the connection after an invalid message
RecvInvalidJSON_closing(c) ==
    /\ c \in clients
    /\ inflight = <<>>
    /\ last' = [conn |-> c, data |-> [type |-> "invalid_json"],
                replies |-> <<[error |-> "Invalid JSON message"]>>,
                attempts |-> <<[error |-> "Invalid JSON message"]>>,
                raised |-> "", chunk |-> NoChunk, done |-> TRUE]
    /\ clients' = clients \ {c}
    /\ gone' = [gone EXCEPT ![c] = "open"]
    /\ UNCHANGED <<processor, now, inflight, activated, stream, sent>>

\* handle_client, lines 297 and 303-306
RecvInvalidJSON(c) ==
    /\ c \in clients
    /\ inflight = <<>>
    /\ RespondError(c, [type |-> "invalid_json"], [error |-> "Invalid JSON message"])
    /\ UNCHANGED <<processor, now, inflight, activated, stream>>

\* handle_client, lines 297-298 and 307-311: the message is valid JSON but
\* not an object (a list, say), data.get raises AttributeError in
\* process_message and the text of the exception is sent back
RecvNonObjectJSON(c) ==
    /\ c \in clients
    /\ inflight = <<>>
    /\ RespondError(c, [type |-> "non_object"],
                    [error |-> "'list' object has no attribute 'get'"])
    /\ UNCHANGED <<processor, now, inflight, activated, stream>>

\* the steps of a server whose clients are among the connections C and send
\* audio_data values from Audio
NextWith(C, Audio) ==
    /\ \/ \E c \in C : Connect(c)
       \/ \E c \in C : Disconnect(c)
       \/ \E d \in TickSteps : Tick(d)
       \/ \E c \in C, settings \in SettingsInputs : RecvInit(c, settings)
       \/ \E c \in C, audio_data \in Audio, answer \in VadInputs,
             delay \in InCallDelays : RecvAudioChunk(c, audio_data, answer, delay)
       \/ \E outcome \in SttInputs : TranscriptionReturns(outcome)
       \/ \E c \in C : RecvGetStats(c)
       \/ \E c \in C : RecvReset(c)
       \/ \E c \in C, message_type \in UnknownTypeInputs :
             RecvUnknownType(c, message_type)
       \/ \E c \in C : RecvInvalidJSON(c)
       \/ \E c \in C : RecvNonObjectJSON(c)
    /\ UNCHANGED <<bench, recorder>>

NextOf(C) == NextWith(C, AudioInputs)

\* one client
Next == NextOf({"A"})

Spec == Init /\ [][Next]_vars

\* two clients of the same server
NextTwo == NextWith(Conns, TwoAudioInputs)

SpecTwo == Init /\ [][NextTwo]_vars

\* one client whose chunks fill the buffer to its cap
NextLong == NextWith({"A"}, LongAudioInputs)

SpecLong == Init /\ [][NextLong]_vars

\* the peer of c goes away while the handler of c is busy or has messages
\* of c still to read: from now on a send on c raises how
PeerCloses(c, how) ==
    /\ c \in clients
    /\ gone[c] = "open"
    /\ gone' = [gone EXCEPT ![c] = how]
    /\ UNCHANGED <<clients, processor, now, inflight, activated, stream, last, sent,
                   bench, recorder>>

\* one client that may go away at any moment
NextClose ==
    \/ NextWith({"A"}, TwoAudioInputs)
    \/ \E how \in SendFailures : PeerCloses("A", how)

SpecClose == Init /\ [][NextClose]_vars

(***************************************************************************)
(* VoiceActivityDetector and RealTimeVoiceProcessor used on their own      *)
(***************************************************************************)
\* VoiceActivityDetector(aggressiveness, sample_rate) is called, and
\* RealTimeVoiceProcessor with the same arguments (its __init__ constructs
\* a detector of its own, line 87)
Construct(aggressiveness, sample_rate) ==
    /\ bench' = [detector |-> VoiceActivityDetector(aggressiveness, sample_rate),
                 processor |-> RealTimeVoiceProcessor(aggressiveness, sample_rate, "base"),
                 fed |-> 0,
                 seq |-> 0,
                 trial |-> [op |-> "construct",
                            aggressiveness |-> aggressiveness,
                            sample_rate |-> sample_rate]]
    /\ UNCHANGED <<clients, processor, now, inflight, activated, stream, last, sent,
                   recorder, gone>>

\* the lengths of the chunks given to a detector with this frame size
SampleCounts(frame_size) ==
    {0, 1, frame_size - 1, frame_size, frame_size + 1, 2 * frame_size}

\* those lengths for the frame sizes of the four supported rates
ChunkLengths == UNION {SampleCounts(frame_size) : frame_size \in {240, 480, 960, 1440}}

\* detector.process_audio_chunks is called with n samples whose
\* max(|sample|) is max_val
Classify(n, max_val, answer) ==
    /\ bench.detector # <<>>
    /\ n \in SampleCounts(bench.detector[1].frame_size)
    /\ bench' = [bench EXCEPT !.trial =
                    [op |-> "classify",
                     n |-> n,
                     max_val |-> max_val,
                     answer |-> answer,
                     to_vad |-> normalise(max_val),
                     frames |-> frames(bench.detector[1], n),
                     vad_results |-> process_audio_chunks(bench.detector[1], n,
                                                          heard(answer, max_val))]]
    /\ UNCHANGED <<clients, processor, now, inflight, activated, stream, last, sent,
                   recorder, gone>>

\* the array add_chunk would be given if the gain step and the padding were
\* done on audio_float itself
buffered_chunk_as_classified(vad, audio_float) ==
    [len |-> FrameCount(audio_float.len, vad.frame_size) * vad.frame_size,
     max_val |-> normalise(audio_float.max_val)]

\* the array add_chunk is given at line 132: audio_float itself, before the
\* detector is called at line 135; lines 86, 90 and 102 bind their results
\* to names local to process_audio_chunks
buffered_chunk(vad, audio_float) == audio_float

\* what the primitive is given for a chunk: the array after the gain step of
\* lines 82-90, cut into frames of frame_size with the last one padded
vad_copy(vad, audio_float) ==
    [len |-> FrameCount(audio_float.len, vad.frame_size) * vad.frame_size,
     max_val |-> normalise(audio_float.max_val)]

\* processor.process_audio_chunk is called with a payload whose samples have
\* max(|sample|) = max_val; the clock reads 1 s more at every call
Feed(audio_data, max_val, answer) ==
    /\ bench.processor # <<>>
    /\ bench.seq < MaxChunks
    /\ audio_data.kind = "b64"
    /\ (decode(audio_data).raised \/ decode(audio_data).len = 0)
         => max_val = 0 /\ answer = "none"
    /\ LET p == bench.processor[1]
           t == T0 + 1000 * bench.seq
           audio_float == [len |-> decode(audio_data).len, max_val |-> max_val]
           out == process_audio_chunk(p, audio_data, bench.fed,
                                      heard(answer, max_val), t, t)
           appended == Has(out.result, "status")
       IN bench' = [bench EXCEPT
                      !.processor = <<out.p>>,
                      !.fed = IF appended THEN @ + audio_float.len ELSE @,
                      !.seq = @ + 1,
                      !.trial = [op |-> "feed",
                                 audio_data |-> audio_data,
                                 max_val |-> max_val,
                                 answer |-> answer,
                                 before |-> p,
                                 result |-> out.result,
                                 appended |-> IF appended
                                              THEN <<buffered_chunk(p.vad, audio_float)>>
                                              ELSE <<>>,
                                 to_vad |-> IF appended
                                            THEN <<vad_copy(p.vad, audio_float)>>
                                            ELSE <<>>]]
    /\ UNCHANGED <<clients, processor, now, inflight, activated, stream, last, sent,
                   recorder, gone>>

\* the lengths of the audio given to get_speech_segments: up to six frames
SegmentLengths(frame_size) == {0, 1, 2 * frame_size + 1, 4 * frame_size, 6 * frame_size}

\* detector.get_speech_segments is called with n samples that are not all
\* zero
Segments(n, answer, min_speech_duration) ==
    /\ bench.detector # <<>>
    /\ n \in SegmentLengths(bench.detector[1].frame_size)
    /\ bench' = [bench EXCEPT !.trial =
                    [op |-> "segments",
                     n |-> n,
                     answer |-> answer,
                     min_speech_duration |-> min_speech_duration,
                     vad_results |-> process_audio_chunks(bench.detector[1], n, answer),
                     segments |-> get_speech_segments(bench.detector[1], n, answer,
                                                      min_speech_duration)]]
    /\ UNCHANGED <<clients, processor, now, inflight, activated, stream, last, sent,
                   recorder, gone>>

NextSegments ==
    \/ \E aggressiveness \in AggressivenessInputs, sample_rate \in SampleRateInputs :
          Construct(aggressiveness, sample_rate)
    \/ \E n \in UNION {SegmentLengths(frame_size) : frame_size \in {240, 480, 960, 1440}},
          answer \in SegmentAnswers, min_speech_duration \in MinDurationInputs :
          Segments(n, answer, min_speech_duration)

SpecSegments == Init /\ [][NextSegments]_vars

NextVad ==
    \/ \E audio_data \in AudioInputs, max_val \in PeakInputs, answer \in VadInputs :
          Feed(audio_data, max_val, answer)
    \/ \E aggressiveness \in AggressivenessInputs, sample_rate \in SampleRateInputs :
          Construct(aggressiveness, sample_rate)
    \/ \E n \in ChunkLengths, max_val \in {0, 1000}, answer \in FrameAnswers :
          Classify(n, max_val, answer)

SpecVad == Init /\ [][NextVad]_vars

(***************************************************************************)
(* AudioRecorder                                                           *)
(***************************************************************************)
\* __init__, lines 40-48
AudioRecorder(format_type) ==
    [format_type |-> format_type,
     stream |-> <<>>,
     is_recording |-> FALSE,
     recorded_frames |-> <<>>,
     terminated |-> FALSE]

\* start_recording without the test of lines 59-60
start_recording_unguarded(r, k, open_ok) ==
    IF open_ok
    THEN [r |-> [r EXCEPT !.stream = <<k + 1>>,
                          !.is_recording = TRUE,
                          !.recorded_frames = <<>>],
          raised |-> ""]
    ELSE [r |-> r, raised |-> "Exception"]

\* start_recording on recorder r that has opened k streams so far; open_ok
\* is whether self.audio.open returns a stream (the model leaves open what
\* it does after terminate).  raised is "" when the call returns.
start_recording(r, k, open_ok) ==
    IF r.is_recording
    THEN [r |-> r, raised |-> "RuntimeError"]
    ELSE IF open_ok
    THEN [r |-> [r EXCEPT !.stream = <<k + 1>>,
                          !.is_recording = TRUE,
                          !.recorded_frames = <<>>],
          raised |-> ""]
    ELSE [r |-> r, raised |-> "Exception"]

\* the conversion of lines 110-121 succeeds: the format is one of the two
\* known ones, and convert_ok says that frombuffer and reshape accept the data
converts(r, convert_ok) ==
    r.format_type \in {"paInt16", "paFloat32"} /\ convert_ok

\* stop_recording; close_ok is whether stop_stream and close return.
\* returned is the sequence of frames in the array handed back.
stop_recording(r, close_ok, convert_ok) ==
    IF ~r.is_recording
    THEN [r |-> r, raised |-> "RuntimeError", returned |-> <<>>]
    ELSE
      LET r1 == [r EXCEPT !.is_recording = FALSE] IN
      IF r1.stream # <<>> /\ ~close_ok
      THEN [r |-> r1, raised |-> "Exception", returned |-> <<>>]
      ELSE
        LET r2 == [r1 EXCEPT !.stream = <<>>] IN
        IF r2.recorded_frames = <<>>
        THEN [r |-> r2, raised |-> "", returned |-> <<>>]
        ELSE IF converts(r2, convert_ok)
        THEN [r |-> r2, raised |-> "", returned |-> r2.recorded_frames]
        ELSE [r |-> r2, raised |-> "Exception", returned |-> <<>>]

\* record_chunk appending the frame whether or not a recording is in progress
record_chunk_always(r, read_ok) ==
    IF ~read_ok
    THEN [r |-> r, returned |-> <<>>]
    ELSE LET frame == [stream |-> IF r.stream = <<>> THEN 0 ELSE r.stream[1]] IN
         [r |-> [r EXCEPT !.recorded_frames = Append(@, frame)],
          returned |-> IF r.format_type \in {"paInt16", "paFloat32"}
                       THEN <<frame>> ELSE <<>>]

\* record_chunk; read_ok is whether self.stream.read returns.  returned is
\* <<>> for None, else the frame read, which names the stream it came from.
record_chunk(r, read_ok) ==
    IF ~r.is_recording \/ r.stream = <<>>
    THEN [r |-> r, returned |-> <<>>]
    ELSE IF ~read_ok
    THEN [r |-> r, returned |-> <<>>]
    ELSE LET frame == [stream |-> r.stream[1]] IN
         [r |-> [r EXCEPT !.recorded_frames = Append(@, frame)],
          returned |-> IF r.format_type \in {"paInt16", "paFloat32"}
                       THEN <<frame>> ELSE <<>>]

\* cleanup: an exception of stop_recording leaves self.audio as it is
cleanup(r, close_ok, convert_ok) ==
    LET stopped == IF r.is_recording
                   THEN stop_recording(r, close_ok, convert_ok)
                   ELSE [r |-> r, raised |-> "", returned |-> <<>>]
    IN IF stopped.raised # ""
       THEN [r |-> stopped.r, raised |-> stopped.raised]
       ELSE [r |-> [stopped.r EXCEPT !.terminated = TRUE], raised |-> ""]

\* the history of start and stop calls after one more of them: passed is
\* the last call that got past its RuntimeError test (and, for a start,
\* opened its stream), done the last call that returned
Passed(rec, op, raised) ==
    IF raised = "RuntimeError" \/ (op = "start" /\ raised # "") THEN rec.passed ELSE op

Done(rec, op, raised) == IF raised = "" THEN op ELSE rec.done

\* AudioRecorder(format_type=...) is called
NewRecorder(format_type) ==
    /\ recorder' = [obj |-> <<AudioRecorder(format_type)>>,
                    opened |-> 0,
                    passed |-> "none",
                    done |-> "none",
                    trial |-> [op |-> "new"]]
    /\ UNCHANGED <<clients, processor, now, inflight, activated, stream, last, sent,
                   bench, gone>>

\* recorder.start_recording() is called
StartRecording(open_ok) ==
    /\ recorder.obj # <<>>
    /\ open_ok => recorder.opened < MaxStarts
    /\ LET out == start_recording(recorder.obj[1], recorder.opened, open_ok) IN
       recorder' = [obj |-> <<out.r>>,
                    opened |-> IF out.raised = "" THEN recorder.opened + 1
                               ELSE recorder.opened,
                    passed |-> Passed(recorder, "start", out.raised),
                    done |-> Done(recorder, "start", out.raised),
                    trial |-> [op |-> "start", before |-> recorder.obj[1],
                               raised |-> out.raised]]
    /\ UNCHANGED <<clients, processor, now, inflight, activated, stream, last, sent,
                   bench, gone>>

\* recorder.stop_recording() is called
StopRecording(close_ok, convert_ok) ==
    /\ recorder.obj # <<>>
    /\ LET out == stop_recording(recorder.obj[1], close_ok, convert_ok) IN
       recorder' = [recorder EXCEPT
                      !.obj = <<out.r>>,
                      !.passed = Passed(recorder, "stop", out.raised),
                      !.done = Done(recorder, "stop", out.raised),
                      !.trial = [op |-> "stop", before |-> recorder.obj[1],
                                 raised |-> out.raised, returned |-> out.returned,
                                 close_ok |-> close_ok, convert_ok |-> convert_ok]]
    /\ UNCHANGED <<clients, processor, now, inflight, activated, stream, last, sent,
                   bench, gone>>

\* recorder.record_chunk() is called
RecordChunk(read_ok) ==
    /\ recorder.obj # <<>>
    /\ read_ok => Len(recorder.obj[1].recorded_frames) < MaxFrames
    /\ LET out == record_chunk(recorder.obj[1], read_ok) IN
       recorder' = [recorder EXCEPT
                      !.obj = <<out.r>>,
                      !.trial = [op |-> "record_chunk", before |-> recorder.obj[1],
                                 returned |-> out.returned]]
    /\ UNCHANGED <<clients, processor, now, inflight, activated, stream, last, sent,
                   bench, gone>>

\* recorder.cleanup() is called
Cleanup(close_ok, convert_ok) ==
    /\ recorder.obj # <<>>
    /\ LET out == cleanup(recorder.obj[1], close_ok, convert_ok) IN
       recorder' = [recorder EXCEPT
                      !.obj = <<out.r>>,
                      !.passed = IF recorder.obj[1].is_recording
                                 THEN Passed(recorder, "stop", out.raised) ELSE @,
                      !.done = IF recorder.obj[1].is_recording
                               THEN Done(recorder, "stop", out.raised) ELSE @,
                      !.trial = [op |-> "cleanup", before |-> recorder.obj[1],
                                 raised |-> out.raised]]
    /\ UNCHANGED <<clients, processor, now, inflight, activated, stream, last, sent,
                   bench, gone>>

NextRecorder ==
    \/ \E format_type \in FormatInputs : NewRecorder(format_type)
    \/ \E open_ok \in BOOLEAN : StartRecording(open_ok)
    \/ \E close_ok \in BOOLEAN, convert_ok \in BOOLEAN : StopRecording(close_ok, convert_ok)
    \/ \E read_ok \in BOOLEAN : RecordChunk(read_ok)
    \/ \E close_ok \in BOOLEAN, convert_ok \in BOOLEAN : Cleanup(close_ok, convert_ok)

SpecRecorder == Init /\ [][NextRecorder]_vars

(***************************************************************************)
(* Properties                                                              *)
(***************************************************************************)
\* the last message was an audio_chunk that process_audio_chunk processed
\* without an error
ChunkProcessed == last.chunk # NoChunk /\ ~Has(last.chunk[1].result, "error")

\* process_audio_chunk put the buffer on the queue for the last message
ChunkDispatched == ChunkProcessed /\ last.chunk[1].enqueued

\* a message that carries the outcome of a transcription
IsTranscriptionOutcome(m) ==
    Get(m, "status", "") \in {"transcription_complete", "transcription_error"}

C2_BufferEmptyAfterDispatch ==
    (ChunkDispatched /\ last.done) =>
        /\ processor[1].audio_buffer.buffer.len = 0
        /\ get_duration(processor[1].audio_buffer).num = 0

\* C3: every audio_chunk processed while Active is answered with an
\* audio_processed statistics message, and the one for a chunk that
\* dispatches carries transcription_queued = true.
C3_StatsForEveryChunk ==
    (ChunkProcessed /\ last.done) =>
        \E i \in DOMAIN last.replies :
            /\ Get(last.replies[i], "type", "") = "audio_processed"
            /\ Has(last.replies[i], "total_chunks")
            /\ Has(last.replies[i], "speech_chunks")
            /\ Has(last.replies[i], "buffer_duration")
            /\ last.chunk[1].enqueued
                 => Get(last.replies[i], "transcription_queued", FALSE)

\* C4: a dispatched buffer results in exactly one outbound message that is a
\* transcription result or a transcription error, sent when the handling of
\* its chunk ends; nothing stays behind on the queue and no other message
\* handling sends such a message.
C4_OneOutcomePerDispatch ==
    LET outcomes == {i \in DOMAIN last.replies : IsTranscriptionOutcome(last.replies[i])}
    IN /\ (ChunkDispatched /\ last.done) => Cardinality(outcomes) = 1
       /\ (ChunkDispatched /\ ~last.done) => (outcomes = {} /\ inflight # <<>>)
       /\ ~ChunkDispatched => outcomes = {}
       /\ (last.done /\ processor # <<>>) => processor[1].processing_queue = <<>>
       /\ last.done <=> inflight = <<>>

\* a dispatched buffer has been answered with the error of a failed transcription
C4_Witness ==
    /\ ChunkDispatched
    /\ last.done
    /\ Len(last.replies) = 1
    /\ Get(last.replies[1], "status", "") = "transcription_error"

\* C5: dispatch never blocks ingestion: while the transcription capability
\* runs on a dispatched buffer, the chunk that dispatched it has already been
\* answered.
C5_DispatchDoesNotBlock ==
    inflight # <<>> => last.replies # <<>>

\* what a connection observes of a processor through its audio_processed and
\* stats replies, and the work queued on it
Observed(proc) ==
    IF proc = <<>> THEN <<>>
    ELSE <<[total_chunks |-> proc[1].total_chunks_processed,
            speech_chunks |-> proc[1].speech_chunks_detected,
            buffer_duration |-> get_duration(proc[1].audio_buffer),
            queued |-> proc[1].processing_queue]>>

\* C6: processor state is per connection: a message handled for one
\* connection changes nothing of what another connection, which has
\* initialised its own processor, observes.
C6_StatePerConnection ==
    [][\A d \in Conns :
          (d \in activated /\ d \in activated' /\ last'.conn # d /\ last' # last)
             => Observed(processor') = Observed(processor)]_vars

\* the reply to a message sent before init
IsNotInitializedError(replies) ==
    /\ Len(replies) = 1
    /\ Has(replies[1], "error")
    /\ ~Has(replies[1], "type")

\* C7: on a connection that has not sent a successful init, an audio_chunk,
\* get_stats or reset is answered with the not-initialised error and no
\* processor state is created or changed.
C7_NotInitializedBeforeInit ==
    [][(/\ last' # last
        /\ last'.done
        /\ last'.conn \notin activated
        /\ last'.data.type \in {"audio_chunk", "get_stats", "reset"})
          => (IsNotInitializedError(last'.replies) /\ processor' = processor)]_vars

\* an audio_data that is empty or holds no whole 16-bit sample
NoWholeSample(audio_data) == audio_data.kind = "empty" \/ audio_data.nbytes < 2

\* C8: an audio_chunk whose audio_data is empty or does not decode to one
\* whole 16-bit sample is answered with an error object, and the processor
\* (counters, buffer, last_speech_time, queue) is as it was before.
C8_BadAudioChangesNothing ==
    [][(last'.data.type = "audio_chunk" /\ NoWholeSample(last'.data.audio_data))
          => /\ Len(last'.replies) = 1
             /\ Has(last'.replies[1], "error")
             /\ ~Has(last'.replies[1], "total_chunks")
             /\ processor' = processor
             /\ inflight' = inflight
             /\ stream' = stream]_vars

\* a chunk of a single byte was refused by a processor that had counted chunks
C8_Witness ==
    /\ last.data.type = "audio_chunk"
    /\ last.data.audio_data.kind = "b64"
    /\ last.data.audio_data.nbytes = 1
    /\ processor # <<>>
    /\ processor[1].total_chunks_processed > 0
    /\ processor[1].audio_buffer.buffer.len > 0

\* C9: after a reset of an Active processor the reply is reset_response /
\* reset_complete, get_stats reports total_chunks, speech_chunks,
\* speech_ratio and buffer_duration all zero, and no work is queued.
C9_ResetZeroesEverything ==
    (last.data.type = "reset" /\ processor # <<>>) =>
        /\ last.replies = <<[type |-> "reset_response", status |-> "reset_complete"]>>
        /\ get_stats(processor[1]).total_chunks = 0
        /\ get_stats(processor[1]).speech_chunks = 0
        /\ get_stats(processor[1]).speech_ratio.num = 0
        /\ get_stats(processor[1]).buffer_duration.num = 0
        /\ processor[1].audio_buffer.buffer.len = 0
        /\ processor[1].processing_queue = <<>>
        /\ inflight = <<>>

\* a processor that had taken chunks, detected speech and transcribed was reset
C9_Witness ==
    /\ last.data.type = "reset"
    /\ processor # <<>>
    /\ stream.seq > 0
    /\ processor[1].audio_buffer.last_speech_time > 0
    /\ processor[1].stt # <<>>

\* C10: reset leaves the processor Active with its configuration untouched:
\* the processor is still there, with the same sample rate, VAD settings,
\* model name and loaded model as before the reset, and an audio_chunk that
\* follows the reset is processed, at that sample rate, without a new init.
C10_ResetKeepsConfiguration ==
    [][/\ (/\ last.data.type = "reset"
           /\ processor # <<>>
           /\ last'.data.type = "audio_chunk"
           /\ ~NoWholeSample(last'.data.audio_data))
          => /\ last'.chunk # NoChunk
             /\ ~Has(last'.chunk[1].result, "error")
             /\ last'.chunk[1].result.total_chunks = 1
             /\ last'.chunk[1].result.chunk_duration.den = processor[1].sample_rate
             /\ processor'[1].vad = processor[1].vad
       /\ (last'.data.type = "reset" /\ processor # <<>>)
          => /\ processor' # <<>>
             /\ processor'[1].sample_rate = processor[1].sample_rate
             /\ processor'[1].vad = processor[1].vad
             /\ processor'[1].whisper_model = processor[1].whisper_model
             /\ processor'[1].stt = processor[1].stt
             /\ processor'[1].audio_buffer.sample_rate = processor[1].audio_buffer.sample_rate
             /\ processor'[1].audio_buffer.max_samples = processor[1].audio_buffer.max_samples
             /\ get_stats(processor'[1]).model_loaded = get_stats(processor[1]).model_loaded]_vars

\* a processor configured for 8 kHz whose model is loaded was reset
C10_Witness ==
    /\ last.data.type = "reset"
    /\ processor # <<>>
    /\ processor[1].sample_rate = 8000
    /\ processor[1].vad.aggressiveness = 3
    /\ get_stats(processor[1]).model_loaded
    /\ processor[1].total_chunks_processed = 0

\* C11: no transcription outcome is delivered for a buffer dispatched before
\* the most recent reset: an outcome is only ever sent by the handling of
\* the audio_chunk that dispatched the buffer, to the connection that sent
\* it, while that handling is still going on; the buffer it is about holds
\* only samples appended after the last reset; and a reset finds no
\* transcription in flight and leaves nothing on the queue.
C11_NoOutcomeForWorkBeforeReset ==
    [][/\ (/\ last' # last
           /\ Len(last'.replies) = 1
           /\ IsTranscriptionOutcome(last'.replies[1]))
          => /\ inflight # <<>>
             /\ inflight' = <<>>
             /\ last.data.type = "audio_chunk"
             /\ ~last.done
             /\ last.chunk # NoChunk
             /\ last.chunk[1].enqueued
             /\ last'.data = last.data
             /\ last'.conn = last.conn
             /\ inflight[1].conn = last.conn
             /\ inflight[1].audio_data.start >= stream.base
       /\ (last' # last /\ last'.data.type = "reset")
          => /\ inflight = <<>>
             /\ inflight' = <<>>
             /\ processor' # <<>> => processor'[1].processing_queue = <<>>]_vars

\* a transcription was delivered for a buffer dispatched after a reset that
\* followed earlier audio
C11_Witness ==
    /\ ChunkDispatched
    /\ last.done
    /\ Len(last.replies) = 1
    /\ Get(last.replies[1], "status", "") = "transcription_complete"
    /\ stream.base > 0
    /\ last.chunk[1].result.total_chunks = 1

\* C12: get_stats is read-only and idempotent: handling it changes nothing
\* of the processor (counters, buffer, queue, last_transcription, model),
\* starts no transcription, its reply carries the processor's counters, and
\* a get_stats that directly follows a get_stats gets the identical payload.
C12_GetStatsReadOnly ==
    [][/\ last'.data.type = "get_stats"
          => /\ processor' = processor
             /\ inflight = <<>>
             /\ inflight' = <<>>
             /\ stream' = stream
             /\ Len(last'.replies) = 1
             /\ processor # <<>>
                  => /\ Get(last'.replies[1], "type", "") = "stats"
                     /\ last'.replies[1].total_chunks
                          = processor[1].total_chunks_processed
                     /\ last'.replies[1].speech_chunks
                          = processor[1].speech_chunks_detected
                     /\ last'.replies[1].last_transcription
                          = processor[1].last_transcription
                     /\ last'.replies[1].model_loaded = (processor[1].stt # <<>>)
       /\ (last.data.type = "get_stats" /\ last'.data.type = "get_stats")
          => last'.replies = last.replies]_vars

\* get_stats was answered by a processor that holds audio, has counted a
\* speech chunk and has transcribed
C12_Witness ==
    /\ last.data.type = "get_stats"
    /\ processor # <<>>
    /\ Get(last.replies[1], "type", "") = "stats"
    /\ last.replies[1].speech_chunks > 0
    /\ last.replies[1].last_transcription # ""
    /\ last.replies[1].model_loaded
    /\ processor[1].audio_buffer.buffer.len > 0

\* the statistics s report the ratio of their two counters, 0 when no chunk
\* was processed
RatioOfCounters(s) ==
    /\ s.speech_ratio.den > 0
    /\ s.total_chunks > 0
         => s.speech_ratio.num * s.total_chunks = s.speech_chunks * s.speech_ratio.den
    /\ s.total_chunks = 0 => s.speech_ratio.num = 0

\* C13: the speech_ratio get_stats reports is speech_chunks / total_chunks
\* when total_chunks > 0 and 0 when it is 0, and get_stats straight after an
\* init reports total_chunks 0, speech_chunks 0 and speech_ratio 0.
C13_SpeechRatio ==
    /\ processor # <<>> => RatioOfCounters(get_stats(processor[1]))
    /\ (last.data.type = "get_stats" /\ Get(last.replies[1], "type", "") = "stats")
         => RatioOfCounters(last.replies[1])
    /\ (last.data.type = "init" /\ Get(last.replies[1], "status", "") = "initialized")
         => /\ processor # <<>>
            /\ get_stats(processor[1]).total_chunks = 0
            /\ get_stats(processor[1]).speech_chunks = 0
            /\ get_stats(processor[1]).speech_ratio.num = 0

\* get_stats reported one speech chunk out of two
C13_Witness ==
    /\ last.data.type = "get_stats"
    /\ Get(last.replies[1], "type", "") = "stats"
    /\ last.replies[1].total_chunks = 2
    /\ last.replies[1].speech_chunks = 1
    /\ last.replies[1].speech_ratio = [num |-> 1, den |-> 2]

\* C14: total_chunks and speech_chunks never decrease across a message that
\* is not a reset: a further init, an error reply, a get_stats or traffic on
\* another connection does not lower them.
C14_CountersNeverDecreaseWithoutReset ==
    [][(processor # <<>> /\ last'.data.type # "reset")
          => /\ processor' # <<>>
             /\ processor'[1].total_chunks_processed
                  >= processor[1].total_chunks_processed
             /\ processor'[1].speech_chunks_detected
                  >= processor[1].speech_chunks_detected]_vars

\* the cap of the buffer in samples, and the samples appended to it since it
\* was last emptied
Cap == max_duration * processor[1].sample_rate
AppendedSinceEmptied == stream.fed - stream.base

\* C15: when more samples than the cap max_duration * sample_rate were
\* appended since the buffer was last emptied, the buffer holds exactly cap
\* samples and they are the most recent ones, in order (the cut may fall
\* inside a chunk); appending a chunk that overflows the buffer is not an
\* error.
C15_BufferKeepsMostRecent ==
    /\ (processor # <<>> /\ AppendedSinceEmptied > Cap)
         => /\ processor[1].audio_buffer.buffer.len = Cap
            /\ processor[1].audio_buffer.buffer.start = stream.fed - Cap
    /\ (/\ last.data.type = "audio_chunk"
        /\ ~NoWholeSample(last.data.audio_data)
        /\ last.chunk # NoChunk)
         => ~Has(last.chunk[1].result, "error")

\* the chunk just appended took the buffer over its cap and the oldest kept
\* sample is neither the first sample of the stream nor the first of that chunk
C15_Witness ==
    /\ processor # <<>>
    /\ ChunkProcessed
    /\ AppendedSinceEmptied > Cap
    /\ processor[1].audio_buffer.buffer.len = Cap
    /\ processor[1].audio_buffer.buffer.start > stream.base
    /\ processor[1].audio_buffer.buffer.start
         # stream.fed - last.chunk[1].result.chunk_duration.num

\* C16: the buffer holds min(cap, samples appended since it was last
\* emptied) samples, the duration reported is that length over the sample
\* rate and never negative, every chunk with at least one sample is
\* appended whether or not it holds speech, and a chunk without a whole
\* sample changes nothing.
C16_BufferLength ==
    processor # <<>> =>
        LET ab == processor[1].audio_buffer
            d == get_stats(processor[1]).buffer_duration
        IN /\ ab.buffer.len = IF AppendedSinceEmptied > Cap THEN Cap
                              ELSE AppendedSinceEmptied
           /\ d.den > 0
           /\ d.num >= 0
           /\ d.num = ab.buffer.len
           /\ ab.buffer.len > 0 => d.den = processor[1].sample_rate
           /\ ChunkProcessed
                => last.chunk[1].result.buffer_duration
                     = [num |-> ab.buffer.len, den |-> processor[1].sample_rate]

\* after a reset, a chunk without speech was appended to the emptied buffer
C16_Witness ==
    /\ processor # <<>>
    /\ ChunkProcessed
    /\ ~last.chunk[1].result.speech_detected
    /\ stream.base > 0
    /\ processor[1].audio_buffer.buffer.len = AppendedSinceEmptied
    /\ processor[1].audio_buffer.buffer.len > 0

\* C17: no audio sample is handed to the transcription capability more than
\* once: the snapshot a dispatch hands over starts after the last sample of
\* every snapshot handed over before on the same processor, whether that
\* transcription succeeded or failed.
C17_NoSampleTranscribedTwice ==
    [][(inflight = <<>> /\ inflight' # <<>>)
          => inflight'[1].audio_data.start >= stream.handed]_vars

\* C18: when the transcription of a dispatched buffer fails, the connection
\* receives a message whose type is transcription_error, not transcription.
C18_FailureSentAsTranscriptionError ==
    (/\ ChunkDispatched
     /\ last.done
     /\ Len(last.replies) = 1
     /\ Get(last.replies[1], "status", "") = "transcription_error")
        => Get(last.replies[1], "type", "") = "transcription_error"

\* the step in which the transcription capability returns: a success carries
\* the duration of the snapshot at the configured sample rate and becomes
\* last_transcription with the time of the reply; a failure leaves
\* last_transcription and last_transcription_time as they were
TranscriptionStepStoresResult ==
    (inflight # <<>> /\ inflight' = <<>>)
       => LET r == last'.replies[1] IN
          IF Get(r, "status", "") = "transcription_complete"
          THEN /\ r.duration = [num |-> inflight[1].audio_data.len,
                                den |-> processor[1].sample_rate]
               /\ get_stats(processor'[1]).last_transcription = r.text
               /\ get_stats(processor'[1]).last_transcription_time = r.timestamp
               /\ r.timestamp = now
               /\ stream'.transcribed = r.text
          ELSE /\ Get(r, "status", "") = "transcription_error"
               /\ get_stats(processor'[1]).last_transcription
                    = get_stats(processor[1]).last_transcription
               /\ get_stats(processor'[1]).last_transcription_time
                    = get_stats(processor[1]).last_transcription_time
               /\ stream'.transcribed = stream.transcribed

\* C19 as claimed: a successful transcription reports the duration of its
\* snapshot, a failed one leaves last_transcription and
\* last_transcription_time unchanged, and once a transcription has succeeded
\* get_stats reports the text of the most recent success from then on.
C19_LastTranscriptionFromThenOn ==
    [][/\ TranscriptionStepStoresResult
       /\ (processor' # <<>> /\ stream'.transcribed # "")
            => get_stats(processor'[1]).last_transcription = stream'.transcribed]_vars

\* C19, amended: a successful transcription reports the duration of its
\* snapshot, a failed one leaves last_transcription and
\* last_transcription_time unchanged, and get_stats reports the text of the
\* most recent success until a reset, which clears last_transcription and
\* last_transcription_time: nothing but a successful transcription, a reset
\* or an init changes them.
C19_LastTranscriptionUntilReset ==
    [][/\ TranscriptionStepStoresResult
       /\ (processor' # <<>>)
            => get_stats(processor'[1]).last_transcription \in {stream'.transcribed, ""}
       /\ (/\ processor # <<>>
           /\ processor' # <<>>
           /\ \/ get_stats(processor'[1]).last_transcription
                  # get_stats(processor[1]).last_transcription
              \/ get_stats(processor'[1]).last_transcription_time
                  # get_stats(processor[1]).last_transcription_time)
            => \/ /\ inflight # <<>>
                  /\ Get(last'.replies[1], "status", "") = "transcription_complete"
               \/ /\ last'.data.type = "reset"
                  /\ get_stats(processor'[1]).last_transcription = ""
                  /\ get_stats(processor'[1]).last_transcription_time = 0
               \/ /\ last'.data.type = "init"
                  /\ get_stats(processor'[1]).last_transcription = ""]_vars

\* a transcription failed on a processor that had transcribed before, and
\* get_stats still reports the earlier text
C19_Witness ==
    /\ ChunkDispatched
    /\ last.done
    /\ Get(last.replies[1], "status", "") = "transcription_error"
    /\ processor # <<>>
    /\ get_stats(processor[1]).last_transcription = "hello"
    /\ get_stats(processor[1]).last_transcription_time > 0

\* the step handles an init that constructed a new processor
InitStep ==
    /\ last' # last
    /\ last'.data.type = "init"
    /\ Get(last'.replies[1], "status", "") = "initialized"

\* C20: the transcription model is acquired lazily and once: a processor
\* has no model from its init until the first buffer it dispatched is taken
\* for transcription; the model is only ever constructed in that step, by a
\* processor that has none; and a processor that has a model keeps that
\* very model, and reports model_loaded, through every later message,
\* reset included.
C20_ModelLoadedLazilyOnce ==
    [][/\ (processor # <<>> /\ processor[1].stt # <<>> /\ ~InitStep)
          => /\ processor' # <<>>
             /\ processor'[1].stt = processor[1].stt
             /\ get_stats(processor'[1]).model_loaded
       /\ (/\ processor # <<>>
           /\ processor' # <<>>
           /\ processor[1].stt = <<>>
           /\ processor'[1].stt # <<>>)
          => /\ inflight # <<>>
             /\ inflight' = <<>>
             /\ stream.handed > 0
       /\ InitStep => (processor' # <<>> /\ ~get_stats(processor'[1]).model_loaded)
       /\ (processor' # <<>> /\ stream'.handed = 0)
          => ~get_stats(processor'[1]).model_loaded]_vars

\* after a reset, a processor whose model was loaded before the reset is
\* transcribing the next dispatched buffer
C20_Witness ==
    /\ inflight # <<>>
    /\ processor[1].stt # <<>>
    /\ stream.base > 0

\* C21: for one processor at most one transcription is computed at a time
\* and results are delivered in dispatch order: while a buffer is being
\* transcribed no other buffer waits on the queue, a buffer is taken for
\* transcription only when the dispatch before it has been answered, and the
\* result delivered is the one of the buffer dispatched last.
C21_OneTranscriptionInOrder ==
    [][/\ Len(inflight') <= 1
       /\ inflight' # <<>> => processor'[1].processing_queue = <<>>
       /\ (inflight = <<>> /\ inflight' # <<>>)
          => /\ last.done
             /\ inflight'[1].audio_data.start + inflight'[1].audio_data.len
                  = stream'.handed
       /\ (inflight # <<>> /\ inflight' = <<>>)
          => /\ inflight[1].audio_data.start + inflight[1].audio_data.len
                  = stream.handed
             /\ Get(last'.replies[1], "status", "") = "transcription_complete"
                  => last'.replies[1].duration.num = inflight[1].audio_data.len]_vars

\* the second chunk of a processor is being transcribed after the first one
\* was dispatched and answered
C21_Witness ==
    /\ inflight # <<>>
    /\ processor[1].stt # <<>>
    /\ stream.base = 0
    /\ stream.seq = 2

\* C22: on one connection the audio_processed messages are sent in the
\* order the chunks arrived: the total_chunks of an audio_processed message
\* is strictly greater than that of the audio_processed message sent before
\* it to the same connection since the connection's last reset (or init).
C22_StatsInArrivalOrder ==
    [][(/\ last' # last
        /\ Len(last'.replies) = 1
        /\ Get(last'.replies[1], "type", "") = "audio_processed"
        /\ Has(last'.replies[1], "total_chunks"))
          => last'.replies[1].total_chunks > sent[last'.conn]]_vars

\* the message types process_message knows
KnownTypes == {"init", "audio_chunk", "get_stats", "reset"}

\* C23: a message whose type is none of init, audio_chunk, get_stats, reset
\* (a missing type included) is answered with the error "Unknown message
\* type: <type>", a message that is not valid JSON with the error "Invalid
\* JSON message", and in both cases the processor is as it was before and no
\* transcription is started.
C23_UnknownTypeAndInvalidJSON ==
    [][/\ (last' # last /\ last'.data.type \in UnknownTypeInputs)
          => /\ last'.data.type \notin KnownTypes
             /\ last'.replies
                  = <<[error |-> "Unknown message type: " \o last'.data.type]>>
             /\ processor' = processor
             /\ stream' = stream
             /\ inflight' = <<>>
       /\ (last' # last /\ last'.data.type = "invalid_json")
          => /\ last'.replies = <<[error |-> "Invalid JSON message"]>>
             /\ processor' = processor
             /\ stream' = stream
             /\ inflight' = <<>>]_vars

\* a message without a type was answered by a server whose processor holds
\* audio and a loaded model
C23_Witness ==
    /\ last.data.type = "None"
    /\ last.replies = <<[error |-> "Unknown message type: None"]>>
    /\ processor # <<>>
    /\ processor[1].audio_buffer.buffer.len > 0
    /\ processor[1].stt # <<>>

\* the last message was answered with an error object
ErrorReplied ==
    /\ last.done
    /\ Len(last.replies) = 1
    /\ Has(last.replies[1], "error")

\* the settings construct a processor
ValidSettings(settings) ==
    RealTimeVoiceProcessor(Get(settings, "vad_aggressiveness", 1),
                           Get(settings, "sample_rate", 16000),
                           Get(settings, "whisper_model", "base")) # <<>>

\* C24: a single bad message never ends the connection: a message that is
\* answered with an error (invalid JSON, JSON that is not an object,
\* unknown type, a message before init, undecodable audio, init with invalid
\* settings) leaves the sender connected, and the next message on the
\* connection is processed normally: get_stats is answered with the
\* statistics, reset with reset_complete, an init with valid settings with
\* initialized, and an audio_chunk with at least one sample is processed.
C24_BadMessageKeepsConnection ==
    [][/\ (last' # last /\ Len(last'.replies) = 1 /\ Has(last'.replies[1], "error"))
          => /\ clients' = clients
             /\ last'.conn \in clients'
       /\ (ErrorReplied /\ last' # last /\ last'.conn = last.conn)
          => /\ last.conn \in clients
             /\ (last'.data.type = "get_stats" /\ processor # <<>>)
                  => Get(last'.replies[1], "type", "") = "stats"
             /\ last'.data.type = "reset"
                  => Get(last'.replies[1], "status", "") = "reset_complete"
             /\ (last'.data.type = "init" /\ ValidSettings(last'.data.settings))
                  => Get(last'.replies[1], "status", "") = "initialized"
             /\ (/\ last'.data.type = "audio_chunk"
                 /\ processor # <<>>
                 /\ ~NoWholeSample(last'.data.audio_data))
                  => /\ last'.chunk # NoChunk
                     /\ ~Has(last'.chunk[1].result, "error")]_vars

\* a message that was not a JSON object has been answered with an error by
\* a server that has processed chunks, and its sender is still connected
C24_Witness ==
    /\ ErrorReplied
    /\ last.data.type = "non_object"
    /\ last.conn \in clients
    /\ processor # <<>>
    /\ processor[1].total_chunks_processed > 0

\* C25: constructing a VoiceActivityDetector succeeds exactly when
\* sample_rate is one of 8000, 16000, 32000, 48000 and aggressiveness is one
\* of 0, 1, 2, 3; otherwise it raises and no detector is created.  The
\* detector created has the values asked for and a frame of 30 ms.
C25_DetectorConstruction ==
    bench.trial.op = "construct" =>
        LET valid == /\ bench.trial.sample_rate \in {8000, 16000, 32000, 48000}
                     /\ bench.trial.aggressiveness \in {0, 1, 2, 3}
        IN /\ bench.detector # <<>> <=> valid
           /\ bench.processor # <<>> <=> valid
           /\ valid => /\ bench.detector[1].sample_rate = bench.trial.sample_rate
                       /\ bench.detector[1].aggressiveness = bench.trial.aggressiveness
                       /\ bench.detector[1].frame_size * 100
                            = bench.trial.sample_rate * 3

\* a sample rate that is valid was refused because of the aggressiveness
C25_Witness ==
    /\ bench.trial.op = "construct"
    /\ bench.trial.sample_rate = 48000
    /\ bench.trial.aggressiveness = 4
    /\ bench.detector = <<>>

\* the detector's last call classified a chunk
Classified == bench.trial.op = "classify"

\* C26: classifying n samples with frame_size = sample_rate * 30 / 1000
\* returns exactly ceil(n / frame_size) results, one per consecutive
\* non-overlapping frame, with indices 0, 1, 2, ... in order and a boolean
\* each; a final partial frame is padded to frame_size and still has a
\* result; no sample yields the empty list.
C26_OneResultPerFrame ==
    Classified =>
        LET t == bench.trial
            frame_size == (bench.detector[1].sample_rate * 30) \div 1000
            count == Len(t.vad_results)
        IN /\ (count - 1) * frame_size < t.n
           /\ t.n <= count * frame_size
           /\ t.n = 0 => t.vad_results = <<>>
           /\ Len(t.frames) = count
           /\ \A k \in 1..count :
                 /\ t.vad_results[k][1] = k - 1
                 /\ t.vad_results[k][2] \in BOOLEAN
                 /\ t.frames[k].first = (k - 1) * frame_size
                 /\ t.frames[k].samples > 0
                 /\ t.frames[k].samples
                      = IF k < count THEN frame_size ELSE t.n - t.frames[k].first
                 /\ t.frames[k].given = frame_size

\* a chunk of one frame and one sample was classified in two frames
C26_Witness ==
    /\ Classified
    /\ bench.trial.n = bench.detector[1].frame_size + 1
    /\ Len(bench.trial.vad_results) = 2
    /\ bench.trial.frames[2].samples = 1

\* C29: is_speech fails closed: a frame on which the VAD primitive raises
\* is classified as not speech, the error does not leave
\* process_audio_chunks, and the frames after it are still classified.
C29_FailsClosed ==
    (Classified /\ bench.trial.max_val > 0) =>
        LET t == bench.trial
        IN /\ Len(t.vad_results) = Len(t.frames)
           /\ \A k \in 1..Len(t.vad_results) :
                 /\ t.answer = "raises" => t.vad_results[k][2] = FALSE
                 /\ t.answer = "raises_first" => t.vad_results[k][2] = (k > 1)
                 /\ t.answer = "all" => t.vad_results[k][2] = TRUE
                 /\ t.answer = "none" => t.vad_results[k][2] = FALSE

\* the primitive raised on the first of two frames and the second frame was
\* still classified as speech
C29_Witness ==
    /\ Classified
    /\ bench.trial.answer = "raises_first"
    /\ bench.trial.max_val > 0
    /\ bench.trial.vad_results = <<<<0, FALSE>>, <<1, TRUE>>>>

\* the processor's last call was process_audio_chunk on a chunk that decoded
\* to at least one sample
Fed == bench.trial.op = "feed" /\ bench.trial.appended # <<>>

C30_InitGivesFreshProcessor ==
    [][(/\ last' # last
        /\ last'.data.type = "init"
        /\ Get(last'.data.settings, "vad_aggressiveness", 1) \in 0..3
        /\ Get(last'.data.settings, "sample_rate", 16000) \in {8000, 16000, 32000, 48000})
       => /\ last'.replies = <<[type |-> "init_response", status |-> "initialized",
                                settings |-> last'.data.settings]>>
          /\ last'.conn \in activated'
          /\ processor' # <<>>
          /\ LET p == processor'[1]
                 settings == last'.data.settings
             IN /\ p.sample_rate = Get(settings, "sample_rate", 16000)
                /\ p.vad.sample_rate = Get(settings, "sample_rate", 16000)
                /\ p.vad.aggressiveness = Get(settings, "vad_aggressiveness", 1)
                /\ p.whisper_model = Get(settings, "whisper_model", "base")
                /\ p.audio_buffer.sample_rate = Get(settings, "sample_rate", 16000)
                /\ p.total_chunks_processed = 0
                /\ p.speech_chunks_detected = 0
                /\ p.audio_buffer.buffer.len = 0
                /\ p.processing_queue = <<>>
                /\ p.stt = <<>>
                /\ ~get_stats(p).model_loaded]_vars

\* an init was answered that replaced a processor which had counted chunks
\* and loaded its model and was configured differently
C30_Witness ==
    /\ Has(last, "replaced")
    /\ last.replaced # <<>>
    /\ last.replaced[1].total_chunks_processed > 0
    /\ last.replaced[1].stt # <<>>
    /\ last.replaced[1].sample_rate # processor[1].sample_rate
    /\ last.replies[1].status = "initialized"
    /\ processor[1].total_chunks_processed = 0

\* C31: the queue of a processor never holds more than one item and is
\* empty whenever the server is not inside process_message: handling an
\* audio_chunk puts at most one snapshot on it and takes it off again
\* before the capability is called or the message is answered.
C31_QueueAtMostOne ==
    /\ processor # <<>> => processor[1].processing_queue = <<>>
    /\ last.chunk # NoChunk =>
          /\ last.chunk[1].queue_len <= 1
          /\ last.chunk[1].enqueued <=> last.chunk[1].queue_len = 1

\* a chunk put a snapshot on the queue, the handler took it off and has
\* answered
C31_Witness ==
    /\ last.chunk # NoChunk
    /\ last.chunk[1].enqueued
    /\ last.chunk[1].queue_len = 1
    /\ last.done
    /\ processor[1].processing_queue = <<>>

\* the step is a start_recording that returned
StartSucceeds ==
    /\ recorder' # recorder
    /\ recorder'.trial.op = "start"
    /\ recorder'.trial.raised = ""

\* the step is a stop_recording, called directly or by cleanup, that got
\* past the test of lines 90-91
StopPasses ==
    /\ recorder' # recorder
    /\ recorder'.trial.op \in {"stop", "cleanup"}
    /\ recorder'.trial.before.is_recording

\* the step is a start_recording or stop_recording refused with
\* RuntimeError, and leaves the recorder as it was
RejectedUnchanged ==
    /\ recorder'.trial.raised = "RuntimeError"
    /\ recorder'.obj = <<recorder'.trial.before>>
    /\ recorder'.obj = recorder.obj

\* C32 as stated: start_recording is refused while recording and
\* stop_recording while not recording, both leaving the recorder unchanged,
\* and the starts and stops that return without an exception alternate.
C32_SuccessfulCallsAlternate ==
    [][/\ (recorder'.trial.op = "start" /\ recorder'.trial.before.is_recording)
            => RejectedUnchanged
       /\ (recorder'.trial.op = "stop" /\ ~recorder'.trial.before.is_recording)
            => RejectedUnchanged
       /\ StartSucceeds => recorder.done # "start"
       /\ (StopPasses /\ recorder'.trial.raised = "") => recorder.done = "start"]_vars

\* C32 (amended): start_recording is refused while recording and
\* stop_recording while not recording, both leaving the recorder unchanged,
\* so the starts that succeed and the stops that are not refused alternate;
\* a stop that raises after its test has ended the recording all the same.
C32_AcceptedCallsAlternate ==
    [][/\ (recorder'.trial.op = "start" /\ recorder'.trial.before.is_recording)
            => RejectedUnchanged
       /\ (recorder'.trial.op = "stop" /\ ~recorder'.trial.before.is_recording)
            => RejectedUnchanged
       /\ StartSucceeds => (recorder.passed # "start" /\ recorder'.obj[1].is_recording)
       /\ StopPasses => (recorder.passed = "start" /\ ~recorder'.obj[1].is_recording)]_vars

\* a second recording is in progress and a start_recording was refused
C32_Witness ==
    /\ recorder.trial.op = "start"
    /\ recorder.trial.raised = "RuntimeError"
    /\ recorder.opened = 2
    /\ recorder.obj[1].is_recording

\* C40: for an AudioRecorder, is_recording implies an open stream; a
\* stop_recording called while recording leaves is_recording false also when
\* it raises; a start_recording whose open fails leaves is_recording false;
\* record_chunk returns None and stores no frame when not recording; and
\* what stop_recording returns are frames read from the stream opened by the
\* most recent successful start_recording, all of them and in order.
C40_RecorderState ==
    recorder.obj # <<>> =>
        LET r == recorder.obj[1]
            t == recorder.trial
        IN /\ r.is_recording => r.stream # <<>>
           /\ (t.op = "stop" /\ t.before.is_recording) => ~r.is_recording
           /\ (t.op = "start" /\ t.raised = "Exception") => ~r.is_recording
           /\ (t.op = "record_chunk" /\ ~t.before.is_recording)
                => (t.returned = <<>> /\ r.recorded_frames = t.before.recorded_frames)
           /\ (t.op = "stop" /\ t.raised = "")
                => /\ \A i \in DOMAIN t.returned : t.returned[i].stream = recorder.opened
                   /\ t.returned = t.before.recorded_frames
           /\ \A i \in DOMAIN r.recorded_frames :
                 r.recorded_frames[i].stream = recorder.opened

\* the second recording of a recorder was stopped and returned two frames
C40_Witness ==
    /\ recorder.trial.op = "stop"
    /\ recorder.trial.raised = ""
    /\ Len(recorder.trial.returned) = 2
    /\ recorder.opened = 2

\* frames a .. b - 1 (counted from 0) of the results are a maximal run of
\* speech frames
MaximalRun(vad_results, a, b) ==
    /\ 0 <= a /\ a < b /\ b <= Len(vad_results)
    /\ \A i \in a..(b - 1) : vad_results[i + 1][2]
    /\ a > 0 => ~vad_results[a][2]
    /\ b < Len(vad_results) => ~vad_results[b + 1][2]

\* C33: get_speech_segments returns segments in increasing time order that
\* do not overlap, each with start < end and a duration of at least
\* min_speech_duration, each spanning exactly one maximal run of consecutive
\* speech frames; a run open at the end of the audio ends with the last frame.
C33_SegmentsAreMaximalRuns ==
    bench.trial.op = "segments" =>
        LET t == bench.trial
            segs == t.segments
        IN /\ \A i \in DOMAIN segs :
                 /\ segs[i][1] < segs[i][2]
                 /\ segs[i][2] - segs[i][1] >= t.min_speech_duration
                 /\ \E a \in 0..Len(t.vad_results), b \in 0..Len(t.vad_results) :
                       /\ segs[i] = <<a * 30, b * 30>>
                       /\ MaximalRun(t.vad_results, a, b)
           /\ \A i \in DOMAIN segs, j \in DOMAIN segs :
                 i < j => segs[i][2] < segs[j][1]

\* a run of two frames was returned, and the run of one frame that the end
\* of the audio closed was left out as too short
C33_Witness ==
    /\ bench.trial.op = "segments"
    /\ bench.trial.answer = "runs"
    /\ bench.trial.min_speech_duration = 60
    /\ bench.trial.n = 4 * bench.detector[1].frame_size
    /\ bench.trial.segments = <<<<0, 60>>>>

\* the step handled a message, or finished handling one, and a send raised
SendRaised == last' # last /\ last'.done /\ last'.raised # ""

\* the step handled a message, or finished handling one, and no send raised
SendReturned == last' # last /\ last'.done /\ last'.raised = ""

\* C34: clients holds exactly the connections whose handler is running: a
\* connection enters it when its handler starts, stays in it while its
\* messages are handled, and leaves it when the handler ends, be it that
\* the peer closed between two messages or that a send raised
\* ConnectionClosed or another exception.
C34_ClientsAreRunningHandlers ==
    [][/\ SendRaised => (last'.conn \in clients /\ last'.conn \notin clients')
       /\ SendReturned => (last'.conn \in clients /\ last'.conn \in clients')
       /\ \A c \in Conns :
             /\ (c \in clients /\ c \notin clients')
                  => (last' = last \/ (SendRaised /\ last'.conn = c))
             /\ (c \notin clients /\ c \in clients')
                  => (last' = last /\ processor' = processor)
             /\ gone'[c] # "open" => c \in clients'
       /\ inflight' # <<>> => inflight'[1].conn \in clients']_vars

\* the peer went away during a transcription, both sends raised an
\* exception other than ConnectionClosed and the connection has left clients
C34_Witness ==
    /\ last.raised = "OSError"
    /\ last.data.type = "audio_chunk"
    /\ last.chunk # NoChunk
    /\ last.chunk[1].enqueued
    /\ last.conn \notin clients

\* C35: once a send on a connection has raised ConnectionClosed, no further
\* send is attempted on that connection.
C35_NoSendAfterFailedSend ==
    last.raised = "ConnectionClosed" => Len(last.attempts) = 1

ChunkStep ==
    /\ inflight = <<>>
    /\ last' # last
    /\ last'.data.type = "audio_chunk"
    /\ last'.chunk # NoChunk
    /\ Has(last'.chunk[1].result, "status")

C37_TotalCountsAnsweredChunks ==
    (processor # <<>> /\ inflight = <<>>) =>
        /\ 0 <= processor[1].speech_chunks_detected
        /\ processor[1].speech_chunks_detected <= processor[1].total_chunks_processed
        /\ processor[1].total_chunks_processed = stream.answered

\* C38: an init whose sample_rate is not one of 8000, 16000, 32000, 48000 or
\* whose vad_aggressiveness is outside 0..3 is answered with one error
\* object and changes nothing: the server stays without a processor if it
\* had none, and else keeps the processor it had with its counters, buffer
\* and queue.
C38_InvalidInitChangesNothing ==
    [][(/\ last' # last
        /\ last'.data.type = "init"
        /\ \/ Get(last'.data.settings, "sample_rate", 16000)
                 \notin {8000, 16000, 32000, 48000}
           \/ Get(last'.data.settings, "vad_aggressiveness", 1) \notin 0..3)
       => /\ Len(last'.replies) = 1
          /\ Has(last'.replies[1], "error")
          /\ DOMAIN last'.replies[1] = {"error"}
          /\ processor' = processor
          /\ stream' = stream
          /\ clients' = clients
          /\ activated' = activated
          /\ inflight' = inflight]_vars

\* an init with a sample rate no detector accepts was answered with an error
\* while the processor kept the chunk it had counted and buffered
C38_Witness ==
    /\ last.data.type = "init"
    /\ Get(last.data.settings, "sample_rate", 16000) = 44100
    /\ Has(last.replies[1], "error")
    /\ processor # <<>>
    /\ processor[1].total_chunks_processed > 0
    /\ processor[1].audio_buffer.buffer.len > 0

====
